---- MODULE Spec2Model ----
(***************************************************************************)
(* Verification model of src/src/Graph.jsx: the proximity graph builder    *)
(* (generateNodes, generateEdges), the shortest-path engine (dijkstra) and *)
(* the Graph component's selection / playback logic.                       *)
(***************************************************************************)
EXTENDS Integers, Sequences, FiniteSets, TLC

VARIABLES
    nodes,          \* nodesRef.current / the nodes argument of dijkstra
    edges,          \* edgesRef.current / the edges argument of dijkstra
    maxDistance,    \* the maxDistance argument of generateEdges
    startId, endId, \* the endpoint arguments of dijkstra
    distances,      \* dijkstra: distances
    previous,       \* dijkstra: previous
    visited,        \* dijkstra: visited
    unvisitedNodes, \* dijkstra: unvisitedNodes
    exploredEdges,  \* dijkstra: exploredEdges (and the effect's copy of it)
    currentNode,    \* dijkstra: currentNode of the latest loop iteration
    path,           \* dijkstra: path (and the effect's copy of it)
    currentId,      \* dijkstra: currentId of the reconstruction loop
    pc,             \* position inside dijkstra / generateEdges
    selectedNodes,  \* Graph: selectedNodes state
    isAnimating,    \* Graph: isAnimating state
    shortestPath,   \* Graph: shortestPath state
    edgeIndex,      \* effect closure: edgeIndex
    pathIndex,      \* effect closure: pathIndex
    timer,          \* the callback the pending setTimeout will run
    effectDeps,     \* [selectedNodes, isAnimating] at the effect's last run
    greenEdges,     \* explored edges drawn by the current playback
    redSegments,    \* path segments drawn by the current playback
    runCount        \* number of dijkstra invocations so far (saturating)

graphVars == <<nodes, edges, maxDistance>>
engineVars == <<startId, endId, distances, previous, visited, unvisitedNodes,
                currentNode, currentId>>
resultVars == <<exploredEdges, path>>
uiVars == <<selectedNodes, isAnimating, shortestPath, edgeIndex, pathIndex,
            timer, effectDeps, greenEdges, redSegments, runCount>>
vars == <<graphVars, engineVars, resultVars, pc, uiVars>>

----------------------------------------------------------------------------
(* Bounds of the model *)

MaxNodes == 4          \* engine graphs have at most this many nodes
MaxConnections == 3    \* engine graphs have at most this many connected pairs
Weights == {0, 1}      \* engine edge weights
MaxPathLen == MaxNodes + 2   \* cap on the reconstruction loop's path growth
MaxBuildNodes == 3     \* generateEdges is applied to at most this many nodes
MaxDistances == {-1, 0, 1, 4, 5, 6}   \* maxDistance arguments of generateEdges
NODE_COUNT == 3        \* line 5, scaled down from 500
MAX_EDGE_DISTANCE == 5 \* line 6, scaled down from 150
MaxRuns == 2           \* runCount stops counting here

----------------------------------------------------------------------------
(* JavaScript values *)

null == -1
undefined == -2
\* Infinity: larger than the weight of any simple path of the bounded graphs
\* (engine graphs: at most MaxNodes nodes and weights in Weights; generated
\* graphs: NODE_COUNT nodes and weights below MAX_EDGE_DISTANCE).
\* Infinity - Infinity is NaN in the comparator, which sort treats as +0; here
\* the difference is 0 as well.
Heaviest == CHOOSE w \in Weights : \A v \in Weights : v <= w

Infinity == (MaxNodes + NODE_COUNT) * (Heaviest + MAX_EDGE_DISTANCE) + 1

\* the value of currentNode before the first loop iteration declares it
NoNode == [id |-> null, x |-> 0, y |-> 0]

NodeIds(ns) == {ns[i].id : i \in 1..Len(ns)}

\* obj[key] on a plain object: undefined when the key is absent
Lookup(obj, key) == IF key \in DOMAIN obj THEN obj[key] ELSE undefined

----------------------------------------------------------------------------
(* dijkstra, lines 50-101 *)

\* a comparator that breaks ties of distance by ascending id
CompareThenId(a, b, dist) ==
    IF dist[a.id] = dist[b.id] THEN a.id - b.id ELSE dist[a.id] - dist[b.id]

\* line 66: the sort comparator
Compare(a, b, dist) == dist[a.id] - dist[b.id]

\* Array.prototype.sort is stable: x is placed before the first later element
\* it does not compare greater than.
RECURSIVE InsertSorted(_, _, _)
InsertSorted(x, s, dist) ==
    IF s = <<>> THEN <<x>>
    ELSE IF Compare(x, Head(s), dist) <= 0 THEN <<x>> \o s
    ELSE <<Head(s)>> \o InsertSorted(x, Tail(s), dist)

RECURSIVE SortByDistance(_, _)
SortByDistance(s, dist) ==
    IF s = <<>> THEN <<>>
    ELSE InsertSorted(Head(s), SortByDistance(Tail(s), dist), dist)

\* line 79: the filter predicate
Touches(edge, cur) == edge.source.id = cur.id \/ edge.target.id = cur.id

\* a neighbour lookup that reads every edge as leaving its source
NeighborIsTarget(edge, cur) == edge.target

\* line 81
Neighbor(edge, cur) == IF edge.source.id = cur.id THEN edge.target ELSE edge.source

\* line 82
IsVisited(vis, id) == id \in vis

\* a candidate distance that forgets the distance of the visited node
NewDistanceWeightOnly(dcur, weight) == weight

\* line 84
NewDistance(dcur, weight) == dcur + weight

\* relaxation tests that accept a candidate which is not strictly lower
ImprovesOrEqual(newDistance, old) == newDistance <= old

ImprovesAlways(newDistance, old) == TRUE

\* line 85
Improves(newDistance, old) == newDistance < old

\* a loop that does not stop at the target
IsEndNever(id, e) == FALSE

\* line 70
IsEnd(id, e) == id = e

\* lines 78-90: filter(...).forEach(...) over the edges, in array order
RECURSIVE Relax(_, _, _, _, _, _)
Relax(es, cur, vis, dist, prev, trace) ==
    IF es = <<>> THEN [distances |-> dist, previous |-> prev, exploredEdges |-> trace]
    ELSE LET edge == Head(es)
             neighbor == Neighbor(edge, cur)
             newDistance == NewDistance(dist[cur.id], edge.weight)
         IN  IF ~Touches(edge, cur) \/ IsVisited(vis, neighbor.id)
             THEN Relax(Tail(es), cur, vis, dist, prev, trace)
             ELSE IF Improves(newDistance, dist[neighbor.id])
             THEN Relax(Tail(es), cur, vis,
                        [dist EXCEPT ![neighbor.id] = newDistance],
                        [prev EXCEPT ![neighbor.id] = cur.id],
                        Append(trace, edge))
             ELSE Relax(Tail(es), cur, vis, dist, prev, trace)

\* lines 51-62: the state of a call before the main loop
EngineInit(ns, s, e) ==
    [distances |-> [k \in NodeIds(ns) \cup {s} |-> IF k = s THEN 0 ELSE Infinity],
     previous |-> [k \in NodeIds(ns) |-> null],
     visited |-> {},
     unvisitedNodes |-> ns,
     exploredEdges |-> <<>>,
     currentNode |-> NoNode,
     path |-> <<>>,
     currentId |-> null,
     pc |-> "loop"]

\* lines 64-95: one test of the while condition and one pass of the loop body;
\* leaving the loop runs lines 94-95
LoopStep(st, es, e) ==
    LET exit(s) == [s EXCEPT !.pc = "reconstruct", !.path = <<>>, !.currentId = e]
    IN  IF Len(st.unvisitedNodes) = 0 THEN exit(st)
        ELSE LET sorted == SortByDistance(st.unvisitedNodes, st.distances)
                 cur == Head(sorted)
                 shifted == [st EXCEPT !.unvisitedNodes = Tail(sorted),
                                       !.currentNode = cur]
             IN  IF st.distances[cur.id] = Infinity THEN exit(shifted)
                 ELSE IF IsEnd(cur.id, e) THEN exit(shifted)
                 ELSE LET vis == st.visited \cup {cur.id}
                          r == Relax(es, cur, vis, st.distances, st.previous,
                                     st.exploredEdges)
                      IN  [shifted EXCEPT !.visited = vis,
                                          !.distances = r.distances,
                                          !.previous = r.previous,
                                          !.exploredEdges = r.exploredEdges]

\* lines 96-100: one test of the while condition and one pass of the body;
\* leaving the loop returns
ReconstructStep(st) ==
    IF st.currentId # null
    THEN [st EXCEPT !.path = <<st.currentId>> \o st.path,
                    !.currentId = Lookup(st.previous, st.currentId)]
    ELSE [st EXCEPT !.pc = "done"]

\* lines 96-100: the whole loop.  A walk that never meets null does not
\* return; it is followed until its path holds MaxPathLen entries.
RECURSIVE ReconstructLoop(_)
ReconstructLoop(st) ==
    IF st.pc = "done" \/ Len(st.path) >= MaxPathLen THEN st
    ELSE ReconstructLoop(ReconstructStep(st))

\* the whole call, for arguments on which it returns
RECURSIVE RunEngine(_, _, _)
RunEngine(st, es, e) ==
    IF st.pc = "loop" THEN RunEngine(LoopStep(st, es, e), es, e)
    ELSE ReconstructLoop(st)

dijkstra(ns, es, s, e) ==
    LET st == RunEngine(EngineInit(ns, s, e), es, e)
    IN  [path |-> st.path, exploredEdges |-> st.exploredEdges]

----------------------------------------------------------------------------
(* Graph construction, lines 12-47 *)

\* coordinates on which Math.hypot is an exact integer (3-4-5 triangles)
Xs == {0, 3}
Ys == {0, 4}

Abs(v) == IF v < 0 THEN -v ELSE v

\* Math.hypot on arguments whose hypotenuse is an integer
Hypot(a, b) == CHOOSE r \in 0..(Abs(a) + Abs(b)) : r * r = a * a + b * b

\* lines 25-27
calculateDistance(node1, node2) == Hypot(node1.x - node2.x, node1.y - node2.y)

\* lines 12-22: every outcome of the Math.random() draws
generateNodes(count) ==
    {[i \in 1..count |-> [id |-> i - 1, x |-> c[i][1], y |-> c[i][2]]] :
        c \in [1..count -> Xs \X Ys]}

\* a proximity test that admits pairs exactly maxDistance apart
WithinOrAtDistance(d, maxD) == d <= maxD

\* line 36
WithinDistance(d, maxD) == d < maxD

\* lines 34-43: the body of the inner forEach
EdgeFor(node, target, maxD) ==
    IF node.id # target.id /\ WithinDistance(calculateDistance(node, target), maxD)
    THEN <<[source |-> node, target |-> target,
            weight |-> calculateDistance(node, target)]>>
    ELSE <<>>

\* line 33: the inner forEach, from index j on
RECURSIVE InnerLoop(_, _, _, _)
InnerLoop(ns, node, maxD, j) ==
    IF j > Len(ns) THEN <<>>
    ELSE EdgeFor(node, ns[j], maxD) \o InnerLoop(ns, node, maxD, j + 1)

\* line 32: the outer forEach, from index i on
RECURSIVE OuterLoop(_, _, _)
OuterLoop(ns, maxD, i) ==
    IF i > Len(ns) THEN <<>>
    ELSE InnerLoop(ns, ns[i], maxD, 1) \o OuterLoop(ns, maxD, i + 1)

\* lines 30-47
generateEdges(ns, maxD) == OuterLoop(ns, maxD, 1)

----------------------------------------------------------------------------
(* Arguments of dijkstra: bounded weighted graphs and endpoint ids *)

PlainNodes(n) == [i \in 1..n |-> [id |-> i - 1, x |-> 0, y |-> 0]]

Pairs(n) == {p \in (0..(n - 1)) \X (0..(n - 1)) : p[1] < p[2]}

\* The edge array of a graph whose connected pairs are conn with weights wt,
\* in the order generateEdges enumerates ordered pairs.  both = TRUE stores the
\* two directional records of every connection, both = FALSE only (a, b), a < b.
RECURSIVE EdgeArray(_, _, _, _, _)
EdgeArray(ns, conn, wt, both, k) ==
    LET n == Len(ns)
        a == k \div n
        b == k % n
        rec == IF a < b /\ <<a, b>> \in conn
               THEN <<[source |-> ns[a + 1], target |-> ns[b + 1],
                       weight |-> wt[<<a, b>>]]>>
               ELSE IF both /\ b < a /\ <<b, a>> \in conn
               THEN <<[source |-> ns[a + 1], target |-> ns[b + 1],
                       weight |-> wt[<<b, a>>]]>>
               ELSE <<>>
    IN  IF k >= n * n THEN <<>> ELSE rec \o EdgeArray(ns, conn, wt, both, k + 1)

----------------------------------------------------------------------------
(* The engine as a state machine: one step per loop iteration *)

EngineState ==
    [distances |-> distances, previous |-> previous, visited |-> visited,
     unvisitedNodes |-> unvisitedNodes, exploredEdges |-> exploredEdges,
     currentNode |-> currentNode, path |-> path, currentId |-> currentId,
     pc |-> pc]

SetEngine(st) ==
    /\ distances' = st.distances
    /\ previous' = st.previous
    /\ visited' = st.visited
    /\ unvisitedNodes' = st.unvisitedNodes
    /\ exploredEdges' = st.exploredEdges
    /\ currentNode' = st.currentNode
    /\ path' = st.path
    /\ currentId' = st.currentId
    /\ pc' = st.pc

SetEngineInit ==
    LET st == EngineInit(nodes, startId, endId)
    IN  /\ distances = st.distances
        /\ previous = st.previous
        /\ visited = st.visited
        /\ unvisitedNodes = st.unvisitedNodes
        /\ exploredEdges = st.exploredEdges
        /\ currentNode = st.currentNode
        /\ path = st.path
        /\ currentId = st.currentId
        /\ pc = st.pc

UiIdle ==
    /\ selectedNodes = <<>>
    /\ isAnimating = FALSE
    /\ shortestPath = <<>>
    /\ edgeIndex = 0
    /\ pathIndex = 0
    /\ timer = "none"
    /\ effectDeps = <<>>
    /\ greenEdges = <<>>
    /\ redSegments = <<>>
    /\ runCount = 0

\* dijkstra(nodes, edges, startId, endId) has been called: lines 51-62 are done
Init ==
    /\ \E n \in 0..MaxNodes :
         /\ nodes = PlainNodes(n)
         /\ \E conn \in SUBSET Pairs(n) :
              /\ Cardinality(conn) <= MaxConnections
              /\ \E wt \in [conn -> Weights], both \in BOOLEAN :
                   edges = EdgeArray(nodes, conn, wt, both, 0)
         /\ startId \in 0..n
         /\ endId \in 0..n
    /\ maxDistance = 0
    /\ SetEngineInit
    /\ UiIdle

\* lines 64-91 (and 94-95 on leaving the loop)
Loop ==
    /\ pc = "loop"
    /\ SetEngine(LoopStep(EngineState, edges, endId))
    /\ UNCHANGED <<graphVars, startId, endId, uiVars>>

\* lines 96-100
Reconstruct ==
    /\ pc = "reconstruct"
    /\ Len(path) < MaxPathLen
    /\ SetEngine(ReconstructLoop(EngineState))
    /\ UNCHANGED <<graphVars, startId, endId, uiVars>>

Next == Loop \/ Reconstruct

Spec == Init /\ [][Next]_vars

----------------------------------------------------------------------------
(* Graph construction as a state machine *)

EngineIdle ==
    /\ startId = null
    /\ endId = null
    /\ distances = <<>>
    /\ previous = <<>>
    /\ visited = {}
    /\ unvisitedNodes = <<>>
    /\ exploredEdges = <<>>
    /\ currentNode = NoNode
    /\ path = <<>>
    /\ currentId = null

InitBuild ==
    /\ nodes = <<>>
    /\ edges = <<>>
    /\ maxDistance \in MaxDistances
    /\ pc = "generateNodes"
    /\ EngineIdle
    /\ UiIdle

\* lines 12-22
GenerateNodes ==
    /\ pc = "generateNodes"
    /\ \E count \in 0..MaxBuildNodes : nodes' \in generateNodes(count)
    /\ pc' = "generateEdges"
    /\ UNCHANGED <<edges, maxDistance, engineVars, resultVars, uiVars>>

\* lines 30-47
GenerateEdges ==
    /\ pc = "generateEdges"
    /\ edges' = generateEdges(nodes, maxDistance)
    /\ pc' = "built"
    /\ UNCHANGED <<nodes, maxDistance, engineVars, resultVars, uiVars>>

NextBuild == GenerateNodes \/ GenerateEdges

SpecBuild == InitBuild /\ [][NextBuild]_vars

----------------------------------------------------------------------------
(* The Graph component, lines 103-238 *)

\* line 210: nodesRef.current.find((n) => n.id === id), for an id that is found
Find(ns, id) == ns[CHOOSE i \in 1..Len(ns) : ns[i].id = id]

\* a trace test that stops one element early
HasMoreEdgesButLast(index, trace) == index + 1 < Len(trace)

\* line 197
HasMoreEdges(index, trace) == index < Len(trace)

\* line 209
HasMoreSegments(index, p) == index < Len(p) - 1

\* the mutable part of a playback: the closure variables, the pending timer,
\* what has been drawn, and the isAnimating value last passed to setIsAnimating
Playback ==
    [edgeIndex |-> edgeIndex, pathIndex |-> pathIndex, timer |-> timer,
     greenEdges |-> greenEdges, redSegments |-> redSegments,
     isAnimating |-> isAnimating]

\* lines 208-222
animatePath(pb, p, ns) ==
    IF HasMoreSegments(pb.pathIndex, p)
    THEN [pb EXCEPT !.redSegments =
                        Append(@, <<Find(ns, p[pb.pathIndex + 1]),
                                    Find(ns, p[pb.pathIndex + 2])>>),
                    !.pathIndex = @ + 1,
                    !.timer = "animatePath"]
    ELSE [pb EXCEPT !.isAnimating = FALSE]

\* lines 196-226
animateEdges(pb, trace, p, ns) ==
    IF HasMoreEdges(pb.edgeIndex, trace)
    THEN [pb EXCEPT !.greenEdges = Append(@, trace[pb.edgeIndex + 1]),
                    !.edgeIndex = @ + 1,
                    !.timer = "animateEdges"]
    ELSE animatePath([pb EXCEPT !.pathIndex = 0], p, ns)

\* the playback part of the next state
SetPlayback(pb) ==
    /\ edgeIndex' = pb.edgeIndex
    /\ pathIndex' = pb.pathIndex
    /\ timer' = pb.timer
    /\ greenEdges' = pb.greenEdges
    /\ redSegments' = pb.redSegments
    /\ isAnimating' = pb.isAnimating

\* after construction and mount: lines 108-109 built the graph, the effects
\* are about to run for the first time
InitUI ==
    /\ nodes \in generateNodes(NODE_COUNT)
    /\ edges = generateEdges(nodes, MAX_EDGE_DISTANCE)
    /\ maxDistance = MAX_EDGE_DISTANCE
    /\ pc = "mounted"
    /\ EngineIdle
    /\ selectedNodes = <<>>
    /\ isAnimating = FALSE
    /\ shortestPath = <<>>
    /\ edgeIndex = 0
    /\ pathIndex = 0
    /\ timer = "none"
    /\ effectDeps = <<>>
    /\ greenEdges = <<>>
    /\ redSegments = <<>>
    /\ runCount = 0

\* lines 151-158: the pointerdown handler of a node.  The handler is bound
\* again by the effect of lines 114-168 whenever selectedNodes changes, so the
\* selectedNodes it tests is the current one.
PointerDown(node) ==
    /\ Len(selectedNodes) < 2
    /\ LET newSelection == Append(selectedNodes, node.id)
       IN  selectedNodes' = IF Len(newSelection) <= 2 THEN newSelection
                            ELSE <<node.id>>
    /\ UNCHANGED <<graphVars, engineVars, resultVars, pc, isAnimating,
                   shortestPath, edgeIndex, pathIndex, timer, effectDeps,
                   greenEdges, redSegments, runCount>>

\* line 230: the dependency array of the path-finding effect
Deps == <<selectedNodes, isAnimating>>

\* lines 171-230: the path-finding effect, which React runs after mount and
\* after a render whose dependency array differs from the one of its last run.
\* setIsAnimating(true) of line 174 and a setIsAnimating(false) reached in the
\* same call are batched: the last wins.
PathEffect ==
    /\ effectDeps # Deps
    /\ effectDeps' = Deps
    /\ IF Len(selectedNodes) = 2 /\ ~isAnimating
       THEN LET r == dijkstra(nodes, edges, selectedNodes[1], selectedNodes[2])
                pb0 == [edgeIndex |-> 0, pathIndex |-> 0, timer |-> "none",
                        greenEdges |-> <<>>, redSegments |-> <<>>,
                        isAnimating |-> TRUE]
                pb == animateEdges(pb0, r.exploredEdges, r.path, nodes)
            IN  /\ path' = r.path
                /\ exploredEdges' = r.exploredEdges
                /\ shortestPath' = r.path
                /\ runCount' = IF runCount < MaxRuns THEN runCount + 1 ELSE runCount
                /\ SetPlayback(pb)
       ELSE UNCHANGED <<resultVars, shortestPath, runCount, edgeIndex,
                        pathIndex, timer, greenEdges, redSegments, isAnimating>>
    /\ UNCHANGED <<graphVars, engineVars, pc, selectedNodes>>

\* line 204: the timer set by animateEdges fires
TimerAnimateEdges ==
    /\ timer = "animateEdges"
    /\ SetPlayback(animateEdges([Playback EXCEPT !.timer = "none"],
                                exploredEdges, path, nodes))
    /\ UNCHANGED <<graphVars, engineVars, resultVars, pc, selectedNodes,
                   shortestPath, effectDeps, runCount>>

\* line 218: the timer set by animatePath fires
TimerAnimatePath ==
    /\ timer = "animatePath"
    /\ SetPlayback(animatePath([Playback EXCEPT !.timer = "none"], path, nodes))
    /\ UNCHANGED <<graphVars, engineVars, resultVars, pc, selectedNodes,
                   shortestPath, effectDeps, runCount>>

NextUI ==
    \/ \E i \in 1..Len(nodes) : PointerDown(nodes[i])
    \/ PathEffect
    \/ TimerAnimateEdges
    \/ TimerAnimatePath

\* a pending setTimeout callback eventually runs
SpecUI ==
    /\ InitUI
    /\ [][NextUI]_vars
    /\ WF_vars(TimerAnimateEdges)
    /\ WF_vars(TimerAnimatePath)

----------------------------------------------------------------------------
(* Reference notions used by the properties of the engine *)

Valid(id) == id \in NodeIds(nodes)

SetMin(S) == CHOOSE m \in S : \A k \in S : m <= k

Range(s) == {s[i] : i \in 1..Len(s)}

\* weights of the edge records joining u and v, in either direction
HopWeights(u, v) ==
    {edges[i].weight : i \in {k \in 1..Len(edges) :
        \/ edges[k].source.id = u /\ edges[k].target.id = v
        \/ edges[k].source.id = v /\ edges[k].target.id = u}}

Joined(u, v) == HopWeights(u, v) # {}

\* brute-force least path weights from s, as a sequence indexed by id + 1:
\* Len(nodes) rounds of relaxing every edge in both directions
OtherEnd(edge, v) == IF edge.source.id = v THEN edge.target.id ELSE edge.source.id

RelaxedAt(d, v) ==
    SetMin({d[v + 1]} \cup
           {d[OtherEnd(edges[i], v) + 1] + edges[i].weight :
               i \in {k \in 1..Len(edges) :
                          /\ v \in {edges[k].source.id, edges[k].target.id}
                          /\ d[OtherEnd(edges[k], v) + 1] < Infinity}})

RECURSIVE Round(_, _)
Round(d, v) == IF v >= Len(d) THEN <<>> ELSE <<RelaxedAt(d, v)>> \o Round(d, v + 1)

RECURSIVE Rounds(_, _)
Rounds(d, k) == IF k = 0 THEN d ELSE Rounds(Round(d, 0), k - 1)

RECURSIVE StartVector(_, _, _)
StartVector(s, v, n) ==
    IF v >= n THEN <<>>
    ELSE <<IF v = s THEN 0 ELSE Infinity>> \o StartVector(s, v + 1, n)

RefDist(s, e) == Rounds(StartVector(s, 0, Len(nodes)), Len(nodes))[e + 1]

Reachable(s, e) == Valid(s) /\ Valid(e) /\ RefDist(s, e) < Infinity

RECURSIVE PathWeight(_)
PathWeight(p) ==
    IF Len(p) < 2 THEN 0
    ELSE SetMin(HopWeights(p[1], p[2])) + PathWeight(Tail(p))

PairOf(edge) == {edge.source.id, edge.target.id}

----------------------------------------------------------------------------
(* Properties of the engine *)

\* C1: when endId is reachable from startId, the returned path starts at
\* startId, ends at endId, every two consecutive nodes are joined by an edge,
\* and its total weight equals the brute-force least weight of any
\* start-to-end path.
C1_ShortestPath ==
    (pc = "done" /\ Valid(startId) /\ Valid(endId)) =>
        LET least == RefDist(startId, endId)
        IN  least < Infinity =>
              /\ Len(path) >= 1
              /\ path[1] = startId
              /\ path[Len(path)] = endId
              /\ \A i \in 1..(Len(path) - 1) : Joined(path[i], path[i + 1])
              /\ PathWeight(path) = least

\* a three-node path was returned although a direct, heavier edge joins the
\* endpoints
C1_Witness ==
    /\ pc = "done"
    /\ Reachable(startId, endId)
    /\ Len(path) = 3
    /\ Joined(startId, endId)
    /\ PathWeight(path) < SetMin(HopWeights(startId, endId))

\* C2: when endId is valid, different from startId and not reachable from it,
\* the call returns an empty path.
C2_UnreachableEmptyPath ==
    (pc = "done" /\ Valid(startId) /\ Valid(endId) /\ startId # endId
        /\ ~Reachable(startId, endId)) => path = <<>>

\* C3: when startId or endId is not a node id, the call does not return a
\* path and a trace as a normal result.
C3_InvalidArgumentSignalled ==
    (~Valid(startId) \/ ~Valid(endId)) => pc # "done"

\* C4: dijkstra(nodes, edges, s, s) returns the path [s] and an empty trace.
C4_SameEndpoints ==
    (pc = "done" /\ Valid(startId) /\ startId = endId) =>
        (path = <<startId>> /\ exploredEdges = <<>>)

\* the call returned for equal endpoints on a node that has edges
C4_Witness ==
    /\ pc = "done"
    /\ Valid(startId)
    /\ startId = endId
    /\ \E v \in NodeIds(nodes) : Joined(startId, v)

Candidate(dist, cur, edge) == dist[cur.id] + edge.weight

StrictlyImproving(i, dist, vis, cur) ==
    LET n == Neighbor(edges[i], cur)
    IN  /\ Touches(edges[i], cur)
        /\ n.id \notin vis
        /\ Candidate(dist, cur, edges[i]) < dist[n.id]
        /\ \A j \in 1..(i - 1) :
             (Touches(edges[j], cur) /\ Neighbor(edges[j], cur).id = n.id)
                 => Candidate(dist, cur, edges[i]) < Candidate(dist, cur, edges[j])

RECURSIVE ImprovingFrom(_, _, _, _)
ImprovingFrom(i, dist, vis, cur) ==
    IF i > Len(edges) THEN <<>>
    ELSE (IF StrictlyImproving(i, dist, vis, cur) THEN <<edges[i]>> ELSE <<>>)
             \o ImprovingFrom(i + 1, dist, vis, cur)

\* C6: an edge is appended to exploredEdges exactly when relaxing it from the
\* just-visited node strictly decreases the tentative distance of its other,
\* unvisited endpoint, in the order of the relaxations; nothing else is ever
\* appended and nothing is removed.
C6_TraceIsImprovingRelaxations ==
    [][IF pc = "loop" /\ visited' # visited
       THEN /\ exploredEdges' =
                 exploredEdges \o ImprovingFrom(1, distances, visited', currentNode')
            /\ \A k \in DOMAIN distances :
                 /\ distances'[k] <= distances[k]
                 /\ distances'[k] < distances[k] <=>
                      \E i \in (Len(exploredEdges) + 1)..Len(exploredEdges') :
                          /\ Neighbor(exploredEdges'[i], currentNode').id = k
                          /\ Touches(exploredEdges'[i], currentNode')
       ELSE exploredEdges' = exploredEdges /\ distances' = distances]_vars

\* the trace is non-empty and the visit examined an edge to an unvisited node
\* without appending it
C6_Witness ==
    /\ pc = "loop"
    /\ Len(exploredEdges) > 0
    /\ currentNode.id \in visited
    /\ \E i \in 1..Len(edges) :
         /\ Touches(edges[i], currentNode)
         /\ Neighbor(edges[i], currentNode).id \notin visited
         /\ edges[i] \notin Range(exploredEdges)
         /\ \E j \in 1..Len(exploredEdges) : Touches(exploredEdges[j], currentNode)

\* the graph stores both directional records of each connection, once each
\* and with the same weight
BothDirections ==
    /\ \A i, j \in 1..Len(edges) :
         (edges[i].source.id = edges[j].source.id
            /\ edges[i].target.id = edges[j].target.id) => i = j
    /\ \A i \in 1..Len(edges) : \E j \in 1..Len(edges) :
         /\ edges[j].source.id = edges[i].target.id
         /\ edges[j].target.id = edges[i].source.id
         /\ edges[j].weight = edges[i].weight

IndexIn(s, e) == CHOOSE i \in 1..Len(s) : s[i] = e

\* C8: on a graph that stores both directional records of each connection,
\* the trace holds at most one record per unordered node pair, and that record
\* is the first of the two in the edge array (the second is never appended).
C8_OneRecordPerConnection ==
    (exploredEdges # <<>> /\ BothDirections) =>
        /\ \A i, j \in 1..Len(exploredEdges) :
             PairOf(exploredEdges[i]) = PairOf(exploredEdges[j]) => i = j
        /\ \A i \in 1..Len(exploredEdges) : \A k \in 1..Len(edges) :
             (PairOf(edges[k]) = PairOf(exploredEdges[i]))
                 => IndexIn(edges, exploredEdges[i]) <= k

\* a visit relaxed a neighbour through the first record of a connection whose
\* second record it also examined
C8_Witness ==
    /\ BothDirections
    /\ pc = "loop"
    /\ \E i \in 1..Len(exploredEdges) : \E k \in 1..Len(edges) :
         /\ PairOf(edges[k]) = PairOf(exploredEdges[i])
         /\ edges[k] # exploredEdges[i]
         /\ Touches(exploredEdges[i], currentNode)

----------------------------------------------------------------------------
(* Properties of the graph construction *)

SquaredDistance(a, b) == (a.x - b.x) * (a.x - b.x) + (a.y - b.y) * (a.y - b.y)

\* a and b are closer than maxDistance
Closer(a, b) ==
    maxDistance > 0 /\ SquaredDistance(a, b) < maxDistance * maxDistance

RecordsFor(a, b) == {k \in 1..Len(edges) : edges[k].source = a /\ edges[k].target = b}

\* C7: generateEdges returns exactly one record for every ordered pair of
\* nodes with different ids at distance strictly below maxDistance, weighted
\* by that distance, and nothing else: no self-edge, no pair at distance
\* >= maxDistance, a reverse record of equal weight for every record,
\* zero-length edges kept, and no edge at all for a non-positive maxDistance
\* or an empty node list.
C7_GenerateEdges ==
    pc = "built" =>
        /\ \A i, j \in 1..Len(nodes) :
             Cardinality(RecordsFor(nodes[i], nodes[j])) =
                 IF i # j /\ Closer(nodes[i], nodes[j]) THEN 1 ELSE 0
        /\ \A k \in 1..Len(edges) :
             /\ edges[k].source \in Range(nodes)
             /\ edges[k].target \in Range(nodes)
             /\ edges[k].source.id # edges[k].target.id
             /\ edges[k].weight >= 0
             /\ edges[k].weight * edges[k].weight =
                    SquaredDistance(edges[k].source, edges[k].target)
             /\ \E r \in 1..Len(edges) :
                  /\ edges[r].source = edges[k].target
                  /\ edges[r].target = edges[k].source
                  /\ edges[r].weight = edges[k].weight
        /\ (maxDistance <= 0 \/ nodes = <<>>) => edges = <<>>

\* a built graph with a zero-length edge between coincident nodes and a pair
\* left out because its distance equals maxDistance
C7_Witness ==
    /\ pc = "built"
    /\ \E k \in 1..Len(edges) : edges[k].weight = 0
    /\ \E i, j \in 1..Len(nodes) :
         /\ i # j
         /\ SquaredDistance(nodes[i], nodes[j]) = maxDistance * maxDistance
         /\ RecordsFor(nodes[i], nodes[j]) = {}

----------------------------------------------------------------------------
(* Properties of the playback *)

Segment(i) == <<Find(nodes, path[i]), Find(nodes, path[i + 1])>>

LastSegment == IF Len(path) = 0 THEN 0 ELSE Len(path) - 1

Revealed == Len(greenEdges) + Len(redSegments)

PlaybackFinished ==
    /\ ~isAnimating
    /\ timer = "none"
    /\ greenEdges = exploredEdges
    /\ Len(redSegments) = LastSegment

\* the revealed elements are a prefix of the trace followed, only once the
\* whole trace is revealed, by a prefix of the path's segments; isAnimating is
\* false again only when everything is revealed
PlaybackInOrder ==
    /\ edgeIndex <= Len(exploredEdges)
    /\ greenEdges = SubSeq(exploredEdges, 1, edgeIndex)
    /\ Len(redSegments) = pathIndex
    /\ pathIndex <= LastSegment
    /\ \A i \in 1..Len(redSegments) : redSegments[i] = Segment(i)
    /\ redSegments # <<>> => edgeIndex = Len(exploredEdges)
    /\ (runCount > 0 /\ ~isAnimating) => PlaybackFinished

\* a step that advances the playback reveals exactly one element, or none
\* when it ends the playback; no step reveals two
OneRevealPerTick ==
    /\ Revealed' <= Revealed + 1
    /\ (timer # "none" /\ <<edgeIndex, pathIndex, timer>>' # <<edgeIndex, pathIndex, timer>>) =>
         \/ Revealed' = Revealed + 1 /\ isAnimating' /\ timer' # "none"
         \/ Revealed' = Revealed /\ PlaybackFinished'

\* C9: the playback reveals the trace elements in index order, one per timer
\* tick, no path segment before the last trace element, then the path
\* segments in index order, one per tick, and only then sets isAnimating back
\* to false; every playback that starts gets there.
C9_PlaybackOrder ==
    /\ []PlaybackInOrder
    /\ [][OneRevealPerTick]_vars
    /\ (isAnimating ~> PlaybackFinished)

\* a playback of at least two trace elements and two path segments is over
C9_Witness ==
    /\ PlaybackFinished
    /\ runCount > 0
    /\ Len(exploredEdges) >= 2
    /\ Len(path) >= 3

\* C10: dijkstra is invoked and a playback started at most once for a
\* selection (selectedNodes never changes once it holds two nodes).
C10_OneRunPerSelection == runCount <= 1

====
